---- MODULE Spec2Model ----
(***************************************************************************)
(* data_generatot.py: a one-shot generator of customers, products, orders  *)
(* and order items, followed by the JSON serialisation of the four lists   *)
(* and a console summary.  The script is a straight line of four loops,    *)
(* four file writes and one print; the model follows it statement group by *)
(* statement group.                                                        *)
(*                                                                         *)
(* Python values are tagged records, so that a dict whose values have      *)
(* different types stays comparable: str values are sequences of           *)
(* one-character strings, dicts are insertion-ordered sequences of         *)
(* <<key, value>> pairs (keys are the literals of the source).             *)
(***************************************************************************)
EXTENDS Integers, Sequences, FiniteSets, TLC

(***************************************************************************)
(* Sizes.  The script generates 24 customers (range(1,25)), 22 products    *)
(* (range(101,123)), 29 orders (range(5001,5030)) and randint(1,5) items   *)
(* per order.  The model keeps the first identifiers of the source and     *)
(* scales the four sizes.                                                  *)
(***************************************************************************)
NumCustomers == 2
NumProducts == 2
NumOrders == 2
MaxItems == 2

FirstCustomerId == 1
FirstProductId == 101
FirstOrderId == 5001
FirstOrderItemId == 9001
MinItems == 1
MinPrice == 30
MaxPrice == 1200
MinStock == 20
MaxStock == 90
MinStreetNo == 111
MaxStreetNo == 894
MaxDayOffset == 730
MaxDeliveryDays == 7
MinDeliveryHours == 2
MaxDeliveryHours == 24
MinQuantity == 1
MaxQuantity == 3

\* range(1,25), range(101,123), range(5001,5030): the stop values.
CustomerIdStop == FirstCustomerId + NumCustomers
\* Variant: range(101, 122), a stop value one short.
ProductIdStopShort == FirstProductId + NumProducts - 1
ProductIdStop == FirstProductId + NumProducts
OrderIdStop == FirstOrderId + NumOrders

\* F(v), with v evaluated once and bound to its value.  Inside ENABLED, TLC
\* evaluates a defined name or an operator argument again at each of its
\* uses; where a value is computed once and read several times, Strict
\* keeps the evaluation linear.
Strict(v, F(_)) == CHOOSE r \in {F(w) : w \in {v}} : TRUE

(***************************************************************************)
(* Python values                                                           *)
(***************************************************************************)
PyInt(n) == [t |-> "int", i |-> n]
PyStr(cs) == [t |-> "str", s |-> cs]
PyNone == [t |-> "none"]
PyList(xs) == [t |-> "list", elems |-> xs]
PyDict(kvs) == [t |-> "dict", items |-> kvs]
PyDatetime(y, mo, d, h, mi, s) ==
    [t |-> "datetime", year |-> y, month |-> mo, day |-> d,
     hour |-> h, minute |-> mi, second |-> s]
\* A value of a type json does not know and custom_serializer does not
\* convert (a set, a Decimal, bytes, ...).
PyOther == [t |-> "set"]

\* k in d
HasKey(d, k) == \E n \in 1..Len(d.items) : d.items[n][1] = k
\* d[k]
Get(d, k) == d.items[CHOOSE n \in 1..Len(d.items) : d.items[n][1] = k][2]
\* d[k] = v: replaces the value of an existing key, appends a new key.
SetItem(d, k, v) ==
    IF HasKey(d, k)
    THEN PyDict([n \in 1..Len(d.items) |->
                    IF d.items[n][1] = k THEN <<k, v>> ELSE d.items[n]])
    ELSE PyDict(Append(d.items, <<k, v>>))
\* The keys of d, in insertion order.
Keys(d) == [n \in 1..Len(d.items) |-> d.items[n][1]]

(***************************************************************************)
(* str                                                                     *)
(***************************************************************************)
UpperLetters ==
    <<"A","B","C","D","E","F","G","H","I","J","K","L","M",
      "N","O","P","Q","R","S","T","U","V","W","X","Y","Z">>
LowerLetters ==
    <<"a","b","c","d","e","f","g","h","i","j","k","l","m",
      "n","o","p","q","r","s","t","u","v","w","x","y","z">>
DigitChars == <<"0","1","2","3","4","5","6","7","8","9">>

\* str.lower() on one character
LowerChar(c) ==
    IF \E n \in 1..26 : UpperLetters[n] = c
    THEN LowerLetters[CHOOSE n \in 1..26 : UpperLetters[n] = c]
    ELSE c
\* s.lower()
Lower(cs) == [n \in 1..Len(cs) |-> LowerChar(cs[n])]
\* s.replace(" ", "")
RemoveSpaces(cs) == SelectSeq(cs, LAMBDA c : c # " ")

RECURSIVE IntToDigits(_)
\* str(n) / the decimal repr of a non-negative int
IntToDigits(n) ==
    IF n < 10 THEN <<DigitChars[n + 1]>>
    ELSE IntToDigits(n \div 10) \o <<DigitChars[(n % 10) + 1]>>
IsDigit(c) == \E n \in 1..10 : DigitChars[n] = c
DigitValue(c) == (CHOOSE n \in 1..10 : DigitChars[n] = c) - 1
RECURSIVE DigitsToInt(_)
\* int(text) for a run of decimal digits
DigitsToInt(cs) ==
    IF Len(cs) = 0 THEN 0
    ELSE 10 * DigitsToInt(SubSeq(cs, 1, Len(cs) - 1)) + DigitValue(cs[Len(cs)])
RECURSIVE ZeroPad(_, _)
\* "%0<w>d" % n
ZeroPad(n, w) ==
    IF Len(IntToDigits(n)) >= w THEN IntToDigits(n)
    ELSE <<"0">> \o ZeroPad(n, w - 1)

(***************************************************************************)
(* datetime: proleptic Gregorian ordinals, datetime + timedelta, the       *)
(* ordering of datetimes, isoformat()                                      *)
(***************************************************************************)
IsLeap(y) == (y % 4 = 0) /\ ((y % 100 # 0) \/ (y % 400 = 0))
DaysInMonth(y, m) ==
    IF m = 2 THEN (IF IsLeap(y) THEN 29 ELSE 28)
    ELSE IF m \in {4, 6, 9, 11} THEN 30 ELSE 31
DaysBeforeYear(y) ==
    (y - 1) * 365 + ((y - 1) \div 4) - ((y - 1) \div 100) + ((y - 1) \div 400)
RECURSIVE DaysBeforeMonth(_, _)
DaysBeforeMonth(y, m) ==
    IF m = 1 THEN 0 ELSE DaysBeforeMonth(y, m - 1) + DaysInMonth(y, m - 1)
\* date.toordinal(): 1 for 0001-01-01
ToOrdinal(y, m, d) == DaysBeforeYear(y) + DaysBeforeMonth(y, m) + d
\* The year of ordinal n, and the date of ordinal n in year y.
YearOfOrdinal(n) ==
    CHOOSE c \in (((n - 1) \div 366) + 1)..(((n - 1) \div 365) + 1) :
        DaysBeforeYear(c) < n /\ n <= DaysBeforeYear(c + 1)
MonthOfYearDay(y, r) ==
    CHOOSE c \in 1..12 :
        DaysBeforeMonth(y, c) < r /\ r <= DaysBeforeMonth(y, c) + DaysInMonth(y, c)
\* date.fromordinal(n)
FromOrdinal(n) ==
    Strict(n, LAMBDA ord :
    Strict(YearOfOrdinal(ord), LAMBDA y :
    Strict(MonthOfYearDay(y, ord - DaysBeforeYear(y)), LAMBDA m :
        [year |-> y, month |-> m,
         day |-> ord - DaysBeforeYear(y) - DaysBeforeMonth(y, m)])))
\* datetime.combine(date.fromordinal(ord), the time of day `rest` seconds in)
AtOrdinal(ord, rest) ==
    Strict(FromOrdinal(ord), LAMBDA date :
        PyDatetime(date.year, date.month, date.day,
                   rest \div 3600, (rest % 3600) \div 60, rest % 60))
\* dt + timedelta(days=days, hours=hours)
DatetimeAdd(dt, days, hours) ==
    Strict(dt.hour * 3600 + dt.minute * 60 + dt.second + hours * 3600,
           LAMBDA secs :
               AtOrdinal(ToOrdinal(dt.year, dt.month, dt.day) + days
                             + (secs \div 86400),
                         secs % 86400))
\* The fields datetime compares, most significant first.
DatetimeFields(dt) == <<dt.year, dt.month, dt.day, dt.hour, dt.minute, dt.second>>
RECURSIVE LexLeq(_, _)
LexLeq(a, b) ==
    IF Len(a) = 0 THEN TRUE
    ELSE IF a[1] # b[1] THEN a[1] < b[1]
    ELSE LexLeq(Tail(a), Tail(b))
\* a <= b on datetimes
DatetimeLeq(a, b) == LexLeq(DatetimeFields(a), DatetimeFields(b))
\* dt.isoformat() with microsecond = 0: YYYY-MM-DDTHH:MM:SS
isoformat(dt) ==
    Strict(dt, LAMBDA d :
        ZeroPad(d.year, 4) \o <<"-">> \o ZeroPad(d.month, 2) \o <<"-">>
        \o ZeroPad(d.day, 2) \o <<"T">> \o ZeroPad(d.hour, 2) \o <<":">>
        \o ZeroPad(d.minute, 2) \o <<":">> \o ZeroPad(d.second, 2))

(***************************************************************************)
(* custom_serializer (lines 78-81): the `default` hook of json.dump.       *)
(* raised = TRUE stands for `raise TypeError("Type not serializable")`.    *)
(***************************************************************************)
\* Variant: `return str(obj)` for every object instead of raising.
custom_serializer_lenient(obj) ==
    IF obj.t = "datetime"
    THEN [raised |-> FALSE, value |-> PyStr(isoformat(obj))]
    ELSE [raised |-> FALSE, value |-> PyStr(<<"s","e","t","(",")">>)]
\* Variant: `return str(obj)` for a datetime: a space where isoformat()
\* puts the "T".
custom_serializer_str(obj) ==
    IF obj.t = "datetime"
    THEN [raised |-> FALSE,
          value |-> PyStr([n \in 1..Len(isoformat(obj)) |->
                             IF isoformat(obj)[n] = "T" THEN " "
                             ELSE isoformat(obj)[n]])]
    ELSE [raised |-> TRUE, value |-> PyNone]
custom_serializer(obj) ==
    IF obj.t = "datetime"
    THEN [raised |-> FALSE, value |-> PyStr(isoformat(obj))]
    ELSE [raised |-> TRUE, value |-> PyNone]

(***************************************************************************)
(* json.dump(obj, fp, indent=4, default=custom_serializer).                *)
(*                                                                         *)
(* The text written is modelled as its sequence of JSON tokens; the        *)
(* indentation json adds between tokens is insignificant whitespace and is *)
(* left out.  A number token carries its decimal digits, a string token    *)
(* its escaped characters, a member-name token the (literal) key.  dump    *)
(* writes chunk by chunk: when the default hook raises, the chunks before  *)
(* the offending value are already in the file (ok = FALSE, out = what was *)
(* written).  The encoder threads the tokens written so far through its    *)
(* calls, as the file is threaded through the chunks of the source.        *)
(***************************************************************************)
Punct(c) == [k |-> "punct", text |-> <<c>>]
NumTok(cs) == [k |-> "num", text |-> cs]
StrTok(cs) == [k |-> "str", text |-> cs]
NullTok == [k |-> "lit", text |-> <<"n","u","l","l">>]
KeyTok(name) == [k |-> "key", name |-> name]

RECURSIVE Escape(_)
\* The body of a JSON string: '"' and '\' get a backslash.
Escape(cs) ==
    IF Len(cs) = 0 THEN <<>>
    ELSE (IF cs[1] \in {"\"", "\\"} THEN <<"\\", cs[1]>> ELSE <<cs[1]>>)
         \o Escape(Tail(cs))
RECURSIVE Unescape(_)
Unescape(cs) ==
    IF Len(cs) = 0 THEN <<>>
    ELSE IF cs[1] = "\\" /\ Len(cs) >= 2
         THEN <<cs[2]>> \o Unescape(SubSeq(cs, 3, Len(cs)))
         ELSE <<cs[1]>> \o Unescape(Tail(cs))

\* Stands for the exception leaving the encoder: nothing is written after it.
RaiseTok == [k |-> "raise", text |-> <<>>]
Raised(toks) == Len(toks) > 0 /\ toks[Len(toks)] = RaiseTok
\* A closing bracket is written only when the body was encoded to its end.
CloseWith(toks, c) ==
    Strict(toks, LAMBDA w : IF Raised(w) THEN w ELSE Append(w, Punct(c)))
Separator(n) == IF n > 1 THEN <<Punct(",")>> ELSE <<>>

RECURSIVE iterencode(_, _)
RECURSIVE iterencode_list(_, _, _)
RECURSIVE iterencode_dict(_, _, _)
\* What the default hook returned is encoded in place of the object.
EncodeDefault(r, written) ==
    IF r.raised THEN Append(written, RaiseTok) ELSE iterencode(r.value, written)
\* `written` followed by the tokens of the elements xs[n..].
iterencode_list(xs, n, written) ==
    Strict(written, LAMBDA w :
        IF n > Len(xs) \/ Raised(w) THEN w
        ELSE iterencode_list(xs, n + 1, iterencode(xs[n], w \o Separator(n))))
\* `written` followed by the tokens of the members kvs[n..]: the key and
\* the colon are written before the value is encoded.
iterencode_dict(kvs, n, written) ==
    Strict(written, LAMBDA w :
        IF n > Len(kvs) \/ Raised(w) THEN w
        ELSE iterencode_dict(kvs, n + 1,
                 iterencode(kvs[n][2],
                            w \o Separator(n) \o <<KeyTok(kvs[n][1]), Punct(":")>>)))
\* `written` followed by the tokens of o.
iterencode(o, written) ==
    CASE o.t = "str" -> Append(written, StrTok(Escape(o.s)))
      [] o.t = "int" -> Append(written, NumTok(IntToDigits(o.i)))
      [] o.t = "none" -> Append(written, NullTok)
      [] o.t = "list" ->
            CloseWith(iterencode_list(o.elems, 1, Append(written, Punct("["))), "]")
      [] o.t = "dict" ->
            CloseWith(iterencode_dict(o.items, 1, Append(written, Punct("{"))), "}")
      [] OTHER -> EncodeDefault(custom_serializer(o), written)
DumpResult(toks) ==
    Strict(toks, LAMBDA w :
        [ok |-> ~Raised(w),
         out |-> IF Raised(w) THEN SubSeq(w, 1, Len(w) - 1) ELSE w])
\* json.dump of a list of records
dump(xs) == DumpResult(iterencode(PyList(xs), <<>>))

(***************************************************************************)
(* json.load, on the same tokens.                                          *)
(***************************************************************************)
ParseFail == [ok |-> FALSE, value |-> PyNone, next |-> 0]
ParseOk(v, n) == [ok |-> TRUE, value |-> v, next |-> n]
RECURSIVE parse_value(_, _)
RECURSIVE parse_array(_, _, _)
RECURSIVE parse_object(_, _, _)
\* After the element v of an array: a comma and the next element, or "]".
AfterElement(toks, v, acc) ==
    IF ~v.ok \/ v.next > Len(toks) THEN ParseFail
    ELSE IF toks[v.next] = Punct(",")
         THEN parse_array(toks, v.next + 1, Append(acc, v.value))
    ELSE IF toks[v.next] = Punct("]")
         THEN ParseOk(PyList(Append(acc, v.value)), v.next + 1)
    ELSE ParseFail
parse_array(toks, pos, acc) ==
    IF pos > Len(toks) THEN ParseFail
    ELSE IF acc = <<>> /\ toks[pos] = Punct("]") THEN ParseOk(PyList(<<>>), pos + 1)
    ELSE AfterElement(toks, parse_value(toks, pos), acc)
\* After the member d[name] = v.value of an object: a comma and the next
\* member, or "}".
AfterMember(toks, v, d) ==
    IF ~v.ok \/ v.next > Len(toks) THEN ParseFail
    ELSE IF toks[v.next] = Punct(",")
         THEN parse_object(toks, v.next + 1, d.items)
    ELSE IF toks[v.next] = Punct("}")
         THEN ParseOk(d, v.next + 1)
    ELSE ParseFail
WithMember(acc, name, v) ==
    IF v.ok THEN SetItem(PyDict(acc), name, v.value) ELSE PyDict(acc)
parse_object(toks, pos, acc) ==
    IF pos > Len(toks) THEN ParseFail
    ELSE IF acc = <<>> /\ toks[pos] = Punct("}") THEN ParseOk(PyDict(<<>>), pos + 1)
    ELSE IF toks[pos].k # "key" \/ pos + 1 > Len(toks) THEN ParseFail
    ELSE IF toks[pos + 1] # Punct(":") THEN ParseFail
    ELSE AfterMember(toks, parse_value(toks, pos + 2),
                     WithMember(acc, toks[pos].name, parse_value(toks, pos + 2)))
parse_value(toks, pos) ==
    IF pos > Len(toks) THEN ParseFail
    ELSE CASE toks[pos].k = "num" ->
                 ParseOk(PyInt(DigitsToInt(toks[pos].text)), pos + 1)
           [] toks[pos].k = "str" ->
                 ParseOk(PyStr(Unescape(toks[pos].text)), pos + 1)
           [] toks[pos].k = "lit" -> ParseOk(PyNone, pos + 1)
           [] toks[pos] = Punct("[") -> parse_array(toks, pos + 1, <<>>)
           [] toks[pos] = Punct("{") -> parse_object(toks, pos + 1, <<>>)
           [] OTHER -> ParseFail
LoadResult(toks, r) == IF r.ok /\ r.next = Len(toks) + 1 THEN r ELSE ParseFail
\* json.load: ok = FALSE stands for json.JSONDecodeError (the text is not
\* one complete JSON value).
load(toks) == LoadResult(toks, parse_value(toks, 1))

(***************************************************************************)
(* The static lists of the product stage (lines 28-37).                    *)
(***************************************************************************)
product_names ==
    << <<"L","a","p","t","o","p">>,
       <<"P","h","o","n","e">>,
       <<"T","a","b","l","e","t">>,
       <<"H","e","a","d","p","h","o","n","e","s">>,
       <<"S","m","a","r","t","w","a","t","c","h">>,
       <<"M","o","n","i","t","o","r">>,
       <<"K","e","y","b","o","a","r","d">>,
       <<"M","o","u","s","e">>,
       <<"G","a","m","i","n","g"," ","C","h","a","i","r">>,
       <<"D","e","s","k"," ","L","a","m","p">>,
       <<"R","o","u","t","e","r">>,
       <<"E","x","t","e","r","n","a","l"," ","H","a","r","d"," ","D","r","i","v","e">>,
       <<"U","S","B"," ","F","l","a","s","h"," ","D","r","i","v","e">>,
       <<"C","a","m","e","r","a">>,
       <<"S","p","e","a","k","e","r","s">>,
       <<"F","i","t","n","e","s","s"," ","T","r","a","c","k","e","r">>,
       <<"M","i","c","r","o","w","a","v","e">>,
       <<"B","l","e","n","d","e","r">>,
       <<"A","i","r"," ","F","r","y","e","r">>,
       <<"E","l","e","c","t","r","i","c"," ","K","e","t","t","l","e">>,
       <<"P","r","o","j","e","c","t","o","r">>,
       <<"D","e","s","k"," ","O","r","g","a","n","i","z","e","r">> >>
product_categories ==
    << <<"E","l","e","c","t","r","o","n","i","c","s">>,
       <<"E","l","e","c","t","r","o","n","i","c","s">>,
       <<"E","l","e","c","t","r","o","n","i","c","s">>,
       <<"A","c","c","e","s","s","o","r","i","e","s">>,
       <<"W","e","a","r","a","b","l","e","s">>,
       <<"E","l","e","c","t","r","o","n","i","c","s">>,
       <<"A","c","c","e","s","s","o","r","i","e","s">>,
       <<"A","c","c","e","s","s","o","r","i","e","s">>,
       <<"F","u","r","n","i","t","u","r","e">>,
       <<"L","i","g","h","t","i","n","g">>,
       <<"N","e","t","w","o","r","k","i","n","g">>,
       <<"S","t","o","r","a","g","e">>,
       <<"S","t","o","r","a","g","e">>,
       <<"E","l","e","c","t","r","o","n","i","c","s">>,
       <<"A","u","d","i","o">>,
       <<"W","e","a","r","a","b","l","e","s">>,
       <<"A","p","p","l","i","a","n","c","e","s">>,
       <<"A","p","p","l","i","a","n","c","e","s">>,
       <<"A","p","p","l","i","a","n","c","e","s">>,
       <<"A","p","p","l","i","a","n","c","e","s">>,
       <<"E","l","e","c","t","r","o","n","i","c","s">>,
       <<"F","u","r","n","i","t","u","r","e">> >>

\* The three mail domains of line 20.
email_domains ==
    << <<"h","o","t","m","a","i","l",".","c","o","m">>,
       <<"g","m","a","i","l",".","c","o","m">>,
       <<"c","o","l","d","m","a","i","l",".","c","o","m">> >>

(***************************************************************************)
(* The records the four stages build.                                      *)
(***************************************************************************)
Delivered == <<"D","e","l","i","v","e","r","e","d">>
Pending == <<"P","e","n","d","i","n","g">>
\* datetime(2024, 1, 15, 10, 0, 0), line 46
BaseDate == PyDatetime(2024, 1, 15, 10, 0, 0)

\* Lines 16-21: one customer from the loop index and the draws of the
\* iteration (faker.name(), the mail domain, the house number,
\* faker.street_name(), faker.city(), faker.state()).
MakeCustomer(id, name, domain, street_no, street_name, city, state) ==
    PyDict(<< <<"customer_id", PyInt(id)>>,
              <<"name", PyStr(name)>>,
              <<"email", PyStr(Lower(RemoveSpaces(name)) \o <<"@">> \o domain)>>,
              <<"address",
                PyDict(<< <<"street",
                            PyStr(IntToDigits(street_no) \o <<" ">> \o street_name)>>,
                          <<"city", PyStr(city)>>,
                          <<"state", PyStr(state)>> >>)>> >>)

\* Lines 39-42: product_names[i-101] is the (i-101+1)-th element here.
MakeProduct(id, price, stock) ==
    PyDict(<< <<"product_id", PyInt(id)>>,
              <<"product_name", PyStr(product_names[id - FirstProductId + 1])>>,
              <<"category", PyStr(product_categories[id - FirstProductId + 1])>>,
              <<"price", PyInt(price)>>,
              <<"stock_quantity", PyInt(stock)>> >>)

\* Variant: an `else` branch that sets delivery_date to None.
MakeOrderNullDelivery(id, customer_id, day_offset, status, delivery_days, delivery_hours) ==
    Strict(PyDict(<< <<"order_id", PyInt(id)>>,
                     <<"customer_id", PyInt(customer_id)>>,
                     <<"order_date", DatetimeAdd(BaseDate, day_offset, 0)>>,
                     <<"status", PyStr(status)>> >>),
           LAMBDA single_order :
               IF Get(single_order, "status") = PyStr(Delivered)
               THEN SetItem(single_order, "delivery_date",
                            DatetimeAdd(Get(single_order, "order_date"),
                                        delivery_days, delivery_hours))
               ELSE SetItem(single_order, "delivery_date", PyNone))
\* Lines 45-51: the order, with delivery_date set only for "Delivered".
MakeOrder(id, customer_id, day_offset, status, delivery_days, delivery_hours) ==
    Strict(PyDict(<< <<"order_id", PyInt(id)>>,
                     <<"customer_id", PyInt(customer_id)>>,
                     <<"order_date", DatetimeAdd(BaseDate, day_offset, 0)>>,
                     <<"status", PyStr(status)>> >>),
           LAMBDA single_order :
               IF Get(single_order, "status") = PyStr(Delivered)
               THEN SetItem(single_order, "delivery_date",
                            DatetimeAdd(Get(single_order, "order_date"),
                                        delivery_days, delivery_hours))
               ELSE single_order)

\* Variant: "order_id": order_item_id, the wrong name.
MakeOrderItemWrongOrderId(item_id, order, product, quantity) ==
    PyDict(<< <<"order_item_id", PyInt(item_id)>>,
              <<"order_id", PyInt(item_id)>>,
              <<"product_id", Get(product, "product_id")>>,
              <<"quantity", PyInt(quantity)>>,
              <<"price", Get(product, "price")>> >>)
\* Variant: price = product["price"] * quantity, the line total.
MakeOrderItemLineTotal(item_id, order, product, quantity) ==
    PyDict(<< <<"order_item_id", PyInt(item_id)>>,
              <<"order_id", Get(order, "order_id")>>,
              <<"product_id", Get(product, "product_id")>>,
              <<"quantity", PyInt(quantity)>>,
              <<"price", PyInt(Get(product, "price").i * quantity)>> >>)
\* Lines 64-71: price is read from the chosen product when the item is built.
MakeOrderItem(item_id, order, product, quantity) ==
    LET price == Get(product, "price")
    IN PyDict(<< <<"order_item_id", PyInt(item_id)>>,
                 <<"order_id", Get(order, "order_id")>>,
                 <<"product_id", Get(product, "product_id")>>,
                 <<"quantity", PyInt(quantity)>>,
                 <<"price", price>> >>)

\* Line 72: order_item_id += 1
NextOrderItemId(id) == id + 1

\* Variant: range(num_items + 1)
RangeLenPlusOne(n) == n + 1
\* Line 61: len(range(num_items)), the iterations of the inner loop.
RangeLen(n) == IF n > 0 THEN n ELSE 0

(***************************************************************************)
(* The environment of a run: what the random module and faker return.      *)
(* Every draw of the script is a \E over the set the environment offers    *)
(* for it, a subset of the range the source draws from.  One run varies    *)
(* the draws of one stage and keeps the others at the low end of their     *)
(* ranges, so that the runs explored are the union over the stages and not *)
(* their product.                                                          *)
(***************************************************************************)
FakerNames ==
    { <<"A","d","a"," ","L","o","v","e","l","a","c","e">>,
      <<"D","r","."," ","J","o"," ","O","'","N","e","i","l">> }
FakerStreetNames == { <<"M","a","i","n"," ","S","t","r","e","e","t">> }
FakerCities == { <<"L","a","g","o","s">> }
FakerStates == { <<"O","h","i","o">> }

Narrow ==
    [ names |-> {<<"A","d","a"," ","L","o","v","e","l","a","c","e">>},
      domains |-> {1},
      street_numbers |-> {MinStreetNo},
      prices |-> {MinPrice},
      stocks |-> {MinStock},
      customer_ids |-> {FirstCustomerId},
      day_offsets |-> {0},
      statuses |-> {Pending},
      delivery_days |-> {0},
      delivery_hours |-> {MinDeliveryHours},
      num_items |-> {MinItems},
      picks |-> {1},
      quantities |-> {MinQuantity},
      dir_exists |-> TRUE ]

\* Day offsets that put order_date on 29 February 2024 and on the last day
\* of the range (the other environments draw 0, the first day).
DayOffsets == {45, MaxDayOffset}

Environments ==
    { \* the name of a customer varies
      [Narrow EXCEPT !.names = FakerNames],
      \* the mail domain of a customer varies
      [Narrow EXCEPT !.domains = 1..Len(email_domains)],
      \* the house number of a customer and the stock of a product vary
      [Narrow EXCEPT !.street_numbers = {MinStreetNo, MaxStreetNo},
                     !.stocks = {MinStock, MaxStock}],
      \* the price of a product varies, and which product an item picks
      [Narrow EXCEPT !.prices = {MinPrice, MaxPrice},
                     !.picks = 1..NumProducts],
      \* the customer and the status of an order vary
      [Narrow EXCEPT !.customer_ids = FirstCustomerId..(CustomerIdStop - 1),
                     !.statuses = {Delivered, Pending}],
      \* the dates of an order vary
      [Narrow EXCEPT !.day_offsets = DayOffsets,
                     !.statuses = {Delivered, Pending},
                     !.delivery_days = {0, MaxDeliveryDays},
                     !.delivery_hours = {MaxDeliveryHours}],
      \* an order has the least or the most items, of the first or the last
      \* product
      [Narrow EXCEPT !.num_items = {MinItems, MaxItems},
                     !.picks = {1, NumProducts}],
      \* the quantity of an item varies
      [Narrow EXCEPT !.quantities = MinQuantity..MaxQuantity],
      \* ./sample_data does not exist
      [Narrow EXCEPT !.dir_exists = FALSE] }

(***************************************************************************)
(* State                                                                   *)
(***************************************************************************)
VARIABLES
    sample_customers_list,    \* lines 7-10: the four lists
    sample_orders_list,
    sample_products_list,
    sample_order_items_list,
    i,                        \* the value the running range() yields next
    order_item_id,            \* line 57; 0 while the name is unbound
    order_pos,                \* `for order in sample_orders_list`: orders taken
    num_items,                \* line 60
    k,                        \* `for _ in range(num_items)`: iterations done
    files,                    \* the four output files
    stdout,                   \* what print() wrote
    exc,                      \* the uncaught exception, "none" while running
    pc,                       \* the statement group the script is at
    env,                      \* the environment of the run
    item_counts               \* history: the num_items drawn, order by order

vars ==
    << sample_customers_list, sample_orders_list, sample_products_list,
       sample_order_items_list, i, order_item_id, order_pos, num_items, k,
       files, stdout, exc, pc, env, item_counts >>

\* ./sample_data/<name>_collection.json, by <name>.  opens counts the
\* open(path, "w") calls made on the file, data is what it holds.
FileNames == {"customers", "orders", "products", "order_items"}
NoFiles == [f \in FileNames |-> [opens |-> 0, data |-> <<>>]]

Init ==
    /\ sample_customers_list = <<>>
    /\ sample_orders_list = <<>>
    /\ sample_products_list = <<>>
    /\ sample_order_items_list = <<>>
    /\ i = FirstCustomerId
    /\ order_item_id = 0
    /\ order_pos = 0
    /\ num_items = 0
    /\ k = 0
    /\ files = NoFiles
    /\ stdout = <<>>
    /\ exc = "none"
    /\ pc = "customers"
    /\ env \in Environments
    /\ item_counts = <<>>

(***************************************************************************)
(* Generation                                                              *)
(***************************************************************************)
\* Lines 15-23, one iteration; the last one leaves the loop.
GenerateCustomer ==
    /\ pc = "customers"
    /\ i < CustomerIdStop
    /\ \E name \in env.names, d \in env.domains, no \in env.street_numbers,
          street \in FakerStreetNames, city \in FakerCities, state \in FakerStates :
          sample_customers_list' =
              Append(sample_customers_list,
                     MakeCustomer(i, name, email_domains[d], no, street, city, state))
    /\ i' = IF i + 1 < CustomerIdStop THEN i + 1 ELSE FirstProductId
    /\ pc' = IF i + 1 < CustomerIdStop THEN "customers" ELSE "products"
    /\ UNCHANGED << sample_orders_list, sample_products_list,
                    sample_order_items_list, order_item_id, order_pos,
                    num_items, k, files, stdout, exc, env, item_counts >>

\* Lines 38-42, one iteration.
GenerateProduct ==
    /\ pc = "products"
    /\ i < ProductIdStop
    /\ \E price \in env.prices, stock \in env.stocks :
          sample_products_list' =
              Append(sample_products_list, MakeProduct(i, price, stock))
    /\ i' = IF i + 1 < ProductIdStop THEN i + 1 ELSE FirstOrderId
    /\ pc' = IF i + 1 < ProductIdStop THEN "products" ELSE "orders"
    /\ UNCHANGED << sample_customers_list, sample_orders_list,
                    sample_order_items_list, order_item_id, order_pos,
                    num_items, k, files, stdout, exc, env, item_counts >>

\* Lines 44-53, one iteration.  The two delivery draws are made only for a
\* "Delivered" order.
GenerateOrder ==
    /\ pc = "orders"
    /\ i < OrderIdStop
    /\ \E customer_id \in env.customer_ids, day \in env.day_offsets,
          status \in env.statuses :
          \E dd \in (IF status = Delivered THEN env.delivery_days ELSE {0}),
             dh \in (IF status = Delivered THEN env.delivery_hours ELSE {0}) :
             sample_orders_list' =
                 Append(sample_orders_list,
                        MakeOrder(i, customer_id, day, status, dd, dh))
    /\ i' = i + 1
    /\ pc' = IF i + 1 < OrderIdStop THEN "orders" ELSE "order_item_id"
    /\ UNCHANGED << sample_customers_list, sample_products_list,
                    sample_order_items_list, order_item_id, order_pos,
                    num_items, k, files, stdout, exc, env, item_counts >>

\* Line 57
InitOrderItemId ==
    /\ pc = "order_item_id"
    /\ order_item_id' = FirstOrderItemId
    /\ pc' = "order_items"
    /\ UNCHANGED << sample_customers_list, sample_orders_list,
                    sample_products_list, sample_order_items_list, i,
                    order_pos, num_items, k, files, stdout, exc, env,
                    item_counts >>

\* Variant: order_item_id = 9001 inside the outer loop.
BeginOrderResettingCounter ==
    /\ pc = "order_items"
    /\ (order_pos = 0 \/ k >= RangeLen(num_items))
    /\ order_pos < Len(sample_orders_list)
    /\ \E n \in env.num_items :
          /\ num_items' = n
          /\ item_counts' = Append(item_counts, n)
    /\ order_pos' = order_pos + 1
    /\ k' = 0
    /\ order_item_id' = FirstOrderItemId
    /\ UNCHANGED << sample_customers_list, sample_orders_list,
                    sample_products_list, sample_order_items_list, i,
                    files, stdout, exc, pc, env >>

\* Lines 59-60: the outer loop takes the next order and draws its count.
BeginOrder ==
    /\ pc = "order_items"
    /\ (order_pos = 0 \/ k >= RangeLen(num_items))
    /\ order_pos < Len(sample_orders_list)
    /\ \E n \in env.num_items :
          /\ num_items' = n
          /\ item_counts' = Append(item_counts, n)
    /\ order_pos' = order_pos + 1
    /\ k' = 0
    /\ UNCHANGED << sample_customers_list, sample_orders_list,
                    sample_products_list, sample_order_items_list, i,
                    order_item_id, files, stdout, exc, pc, env >>

\* Variant: the item also takes its quantity off the product's stock.
AppendItemUpdatingStock ==
    /\ pc = "order_items"
    /\ order_pos >= 1
    /\ k < RangeLen(num_items)
    /\ \E pick \in env.picks \cap (1..Len(sample_products_list)),
          quantity \in env.quantities :
          /\ sample_order_items_list' =
                Append(sample_order_items_list,
                       MakeOrderItem(order_item_id, sample_orders_list[order_pos],
                                     sample_products_list[pick], quantity))
          /\ sample_products_list' =
                [sample_products_list EXCEPT
                    ![pick] = SetItem(@, "stock_quantity",
                                      PyInt(Get(@, "stock_quantity").i - quantity))]
    /\ order_item_id' = NextOrderItemId(order_item_id)
    /\ k' = k + 1
    /\ UNCHANGED << sample_customers_list, sample_orders_list, i, order_pos,
                    num_items, files, stdout, exc, pc, env, item_counts >>

\* Lines 61-72, one iteration of the inner loop.
AppendItem ==
    /\ pc = "order_items"
    /\ order_pos >= 1
    /\ k < RangeLen(num_items)
    /\ \E pick \in env.picks \cap (1..Len(sample_products_list)),
          quantity \in env.quantities :
          sample_order_items_list' =
              Append(sample_order_items_list,
                     MakeOrderItem(order_item_id, sample_orders_list[order_pos],
                                   sample_products_list[pick], quantity))
    /\ order_item_id' = NextOrderItemId(order_item_id)
    /\ k' = k + 1
    /\ UNCHANGED << sample_customers_list, sample_orders_list,
                    sample_products_list, i, order_pos, num_items, files,
                    stdout, exc, pc, env, item_counts >>

\* The outer loop is exhausted.
EndOrderItems ==
    /\ pc = "order_items"
    /\ (order_pos = 0 \/ k >= RangeLen(num_items))
    /\ order_pos = Len(sample_orders_list)
    /\ pc' = "write_customers"
    /\ UNCHANGED << sample_customers_list, sample_orders_list,
                    sample_products_list, sample_order_items_list, i,
                    order_item_id, order_pos, num_items, k, files, stdout,
                    exc, env, item_counts >>

(***************************************************************************)
(* Serialisation (lines 84-97) and the summary (line 101)                  *)
(***************************************************************************)
\* with open(path, "w") as json_file: json.dump(xs, json_file, ...)
\* open() raises when ./sample_data is missing; otherwise it truncates the
\* file, dump writes what it encodes, and an exception of the default hook
\* leaves the script with the file holding what was written so far.
WriteCollection(at, file, xs, next) ==
    /\ pc = at
    /\ \E r \in {dump(xs)} :
          IF ~env.dir_exists
          THEN /\ files' = files
               /\ exc' = "FileNotFoundError"
               /\ pc' = "aborted"
          ELSE /\ files' = [files EXCEPT
                              ![file] = [opens |-> @.opens + 1, data |-> r.out]]
               /\ exc' = IF r.ok THEN "none" ELSE "TypeError"
               /\ pc' = IF r.ok THEN next ELSE "aborted"
    /\ UNCHANGED << sample_customers_list, sample_orders_list,
                    sample_products_list, sample_order_items_list, i,
                    order_item_id, order_pos, num_items, k, stdout, env,
                    item_counts >>

\* Lines 84-85
WriteCustomers ==
    WriteCollection("write_customers", "customers", sample_customers_list,
                    "write_orders")
\* Lines 88-89
WriteOrders ==
    WriteCollection("write_orders", "orders", sample_orders_list,
                    "write_products")
\* Variant: the products are written to the path of the orders file.
WriteProductsToOrdersFile ==
    WriteCollection("write_products", "orders", sample_products_list,
                    "write_order_items")
\* Lines 92-93
WriteProducts ==
    WriteCollection("write_products", "products", sample_products_list,
                    "write_order_items")
\* Lines 96-97
WriteOrderItems ==
    WriteCollection("write_order_items", "order_items",
                    sample_order_items_list, "summary")

\* Line 101: the four counts, in the order printed.
SummaryOf(customers, products, orders, order_items) ==
    << <<"customers", IntToDigits(Len(customers))>>,
       <<"products", IntToDigits(Len(products))>>,
       <<"orders", IntToDigits(Len(orders))>>,
       <<"order_items", IntToDigits(Len(order_items))>> >>

Summary ==
    /\ pc = "summary"
    /\ stdout' = Append(stdout,
                        SummaryOf(sample_customers_list, sample_products_list,
                                  sample_orders_list, sample_order_items_list))
    /\ pc' = "done"
    /\ UNCHANGED << sample_customers_list, sample_orders_list,
                    sample_products_list, sample_order_items_list, i,
                    order_item_id, order_pos, num_items, k, files, exc, env,
                    item_counts >>

Next ==
    \/ GenerateCustomer
    \/ GenerateProduct
    \/ GenerateOrder
    \/ InitOrderItemId
    \/ BeginOrder
    \/ AppendItem
    \/ EndOrderItems
    \/ WriteCustomers
    \/ WriteOrders
    \/ WriteProducts
    \/ WriteOrderItems
    \/ Summary

Spec == Init /\ [][Next]_vars

(***************************************************************************)
(* The serialiser on lists the generation stages do not produce: records   *)
(* holding a value of a type that is neither JSON-native nor a datetime.   *)
(* The run starts at the first write with four such lists in memory.       *)
(***************************************************************************)
SerCustomer ==
    MakeCustomer(FirstCustomerId,
                 <<"D","r","."," ","J","o"," ","\"","J","\""," ","O","'","N","e","i","l">>,
                 email_domains[1], MinStreetNo,
                 <<"M","a","i","n"," ","S","t","r","e","e","t">>,
                 <<"L","a","g","o","s">>, <<"O","h","i","o">>)
SerLists ==
    { \* JSON-native values only
      <<SerCustomer, MakeProduct(FirstProductId, MinPrice, MinStock)>>,
      \* native values and datetimes
      <<MakeOrder(FirstOrderId, FirstCustomerId, 45, Delivered, MaxDeliveryDays,
                  MaxDeliveryHours),
        MakeOrder(FirstOrderId + 1, FirstCustomerId, 0, Pending, 0, 0)>>,
      \* a foreign value in the second record, after a datetime
      <<MakeOrder(FirstOrderId, FirstCustomerId, 0, Delivered, 0, MinDeliveryHours),
        SetItem(MakeProduct(FirstProductId, MinPrice, MinStock), "price", PyOther)>>,
      \* a foreign value nested in the first record
      <<SetItem(SerCustomer, "address",
                PyDict(<< <<"street", PyOther>>,
                          <<"city", PyStr(<<"L","a","g","o","s">>)>> >>)),
        SerCustomer>> }

InitSer ==
    /\ sample_customers_list \in SerLists
    /\ sample_orders_list \in SerLists
    /\ sample_products_list \in SerLists
    /\ sample_order_items_list \in SerLists
    /\ i = OrderIdStop
    /\ order_item_id = FirstOrderItemId + Len(sample_order_items_list)
    /\ order_pos = Len(sample_orders_list)
    /\ num_items = 0
    /\ k = 0
    /\ files = NoFiles
    /\ stdout = <<>>
    /\ exc = "none"
    /\ pc = "write_customers"
    /\ env = Narrow
    /\ item_counts = <<>>

NextSer ==
    \/ WriteCustomers
    \/ WriteOrders
    \/ WriteProducts
    \/ WriteOrderItems
    \/ Summary

SpecSer == InitSer /\ [][NextSer]_vars

(***************************************************************************)
(* Vocabulary of the properties                                            *)
(***************************************************************************)
GenerationStages ==
    {"customers", "products", "orders", "order_item_id", "order_items"}
GenerationDone == pc \notin GenerationStages

\* The list each file is written from.
ListOf(f) ==
    CASE f = "customers" -> sample_customers_list
      [] f = "orders" -> sample_orders_list
      [] f = "products" -> sample_products_list
      [] f = "order_items" -> sample_order_items_list
\* The files in the order the script writes them.
WriteOrder == <<"customers", "orders", "products", "order_items">>
WritePos(f) == CHOOSE n \in 1..4 : WriteOrder[n] = f

RECURSIVE SumSeq(_)
SumSeq(s) == IF Len(s) = 0 THEN 0 ELSE s[1] + SumSeq(Tail(s))

IsPrefix(a, b) == Len(a) <= Len(b) /\ \A n \in 1..Len(a) : a[n] = b[n]

\* The integer fields of the records of a list, position by position.
IdsOf(xs, key) == [n \in 1..Len(xs) |-> Get(xs[n], key)]
IdSetOf(xs, key) == {Get(xs[n], key) : n \in 1..Len(xs)}

\* The in-memory value as JSON can hold it: every datetime replaced by its
\* ISO-8601 string, everything else as it is.
RECURSIVE IsoView(_)
IsoView(v) ==
    CASE v.t = "datetime" -> PyStr(isoformat(v))
      [] v.t = "list" -> PyList([n \in 1..Len(v.elems) |-> IsoView(v.elems[n])])
      [] v.t = "dict" ->
            PyDict([n \in 1..Len(v.items) |->
                       <<v.items[n][1], IsoView(v.items[n][2])>>])
      [] OTHER -> v

\* Some value in v has a type that is neither JSON-native nor datetime.
RECURSIVE HasForeign(_)
HasForeign(v) ==
    CASE v.t \in {"int", "str", "none", "datetime"} -> FALSE
      [] v.t = "list" -> \E n \in 1..Len(v.elems) : HasForeign(v.elems[n])
      [] v.t = "dict" -> \E n \in 1..Len(v.items) : HasForeign(v.items[n][2])
      [] OTHER -> TRUE
RECURSIVE HasDatetime(_)
HasDatetime(v) ==
    CASE v.t = "datetime" -> TRUE
      [] v.t = "list" -> \E n \in 1..Len(v.elems) : HasDatetime(v.elems[n])
      [] v.t = "dict" -> \E n \in 1..Len(v.items) : HasDatetime(v.items[n][2])
      [] OTHER -> FALSE

(***************************************************************************)
(* C1.  Every order in sample_orders_list, at every point of the run and   *)
(* for every draw of status, day offset and hour offset, has an order_id   *)
(* of the generated range, has the key delivery_date exactly when its      *)
(* status is "Delivered", and then delivery_date >= order_date.            *)
(***************************************************************************)
C1_DeliveryDateIffDelivered ==
    \A n \in 1..Len(sample_orders_list) :
        LET o == sample_orders_list[n]
        IN /\ Get(o, "order_id").i \in FirstOrderId..(OrderIdStop - 1)
           /\ HasKey(o, "delivery_date") <=> (Get(o, "status") = PyStr(Delivered))
           /\ HasKey(o, "delivery_date") =>
                 /\ Get(o, "delivery_date").t = "datetime"
                 /\ DatetimeLeq(Get(o, "order_date"), Get(o, "delivery_date"))
\* All orders generated, a delivered one (on the leap day, delivered the
\* next month) and a pending one among them.
C1_Witness ==
    /\ Len(sample_orders_list) = NumOrders
    /\ \E n \in 1..Len(sample_orders_list) :
          /\ HasKey(sample_orders_list[n], "delivery_date")
          /\ Get(sample_orders_list[n], "order_date").month = 2
          /\ Get(sample_orders_list[n], "delivery_date").month = 3
    /\ \E n \in 1..Len(sample_orders_list) :
          Get(sample_orders_list[n], "status") = PyStr(Pending)

(***************************************************************************)
(* C2.  At every point of the run the k-th item of sample_order_items_list *)
(* has order_item_id = 9000 + k (first id 9001, no gap, no duplicate, no   *)
(* reset at an order boundary), and while items are generated the counter  *)
(* is the id the next item gets.                                           *)
(***************************************************************************)
C2_ItemIdsSequential ==
    /\ \A n \in 1..Len(sample_order_items_list) :
          Get(sample_order_items_list[n], "order_item_id")
              = PyInt(FirstOrderItemId - 1 + n)
    /\ pc = "order_items" =>
          order_item_id = FirstOrderItemId + Len(sample_order_items_list)
\* The second order has an item, after a first order of two items.
C2_Witness ==
    /\ order_pos = 2
    /\ Len(item_counts) = 2
    /\ item_counts[1] = 2
    /\ Len(sample_order_items_list) = 3

(***************************************************************************)
(* C3.  Referential integrity, in every reachable state and so in every    *)
(* final one: the order_id of every order item is that of a generated      *)
(* order, its product_id that of a generated product, and the customer_id  *)
(* of every order that of a generated customer.                            *)
(***************************************************************************)
C3_ReferentialIntegrity ==
    /\ \A n \in 1..Len(sample_order_items_list) :
          /\ Get(sample_order_items_list[n], "order_id")
                \in IdSetOf(sample_orders_list, "order_id")
          /\ Get(sample_order_items_list[n], "product_id")
                \in IdSetOf(sample_products_list, "product_id")
    /\ \A n \in 1..Len(sample_orders_list) :
          Get(sample_orders_list[n], "customer_id")
              \in IdSetOf(sample_customers_list, "customer_id")
\* A finished run whose last item belongs to the last order and references
\* the last product.
C3_Witness ==
    /\ pc = "done"
    /\ Len(sample_order_items_list) >= NumOrders
    /\ LET it == sample_order_items_list[Len(sample_order_items_list)]
       IN /\ Get(it, "order_id") = PyInt(OrderIdStop - 1)
          /\ Get(it, "product_id") = PyInt(ProductIdStop - 1)

(***************************************************************************)
(* C4.  When generation has finished there are NumOrders orders, each      *)
(* owning exactly the number of items drawn for it, a number between       *)
(* MinItems and MaxItems; the item list is as long as the sum of the       *)
(* draws, hence between NumOrders * MinItems and NumOrders * MaxItems.     *)
(***************************************************************************)
C4_ItemCounts ==
    GenerationDone =>
        /\ Len(sample_orders_list) = NumOrders
        /\ Len(item_counts) = NumOrders
        /\ \A n \in 1..Len(sample_orders_list) :
              LET owned == {m \in 1..Len(sample_order_items_list) :
                               Get(sample_order_items_list[m], "order_id")
                                   = Get(sample_orders_list[n], "order_id")}
              IN /\ Cardinality(owned) = item_counts[n]
                 /\ Cardinality(owned) \in MinItems..MaxItems
        /\ Len(sample_order_items_list) = SumSeq(item_counts)
        /\ Len(sample_order_items_list)
              \in (NumOrders * MinItems)..(NumOrders * MaxItems)
\* A finished run in which one order drew the least and one the most.
C4_Witness ==
    /\ pc = "done"
    /\ \E n \in 1..Len(item_counts) : item_counts[n] = MinItems
    /\ \E n \in 1..Len(item_counts) : item_counts[n] = MaxItems

(***************************************************************************)
(* C5.  When generation has finished, the customer ids are 1, 2, ... in    *)
(* list order, the product ids 101, 102, ... and the order ids 5001,       *)
(* 5002, ..., each list holding exactly as many records as its range has   *)
(* values.                                                                 *)
(***************************************************************************)
C5_IdsContiguous ==
    GenerationDone =>
        /\ IdsOf(sample_customers_list, "customer_id")
              = [n \in 1..NumCustomers |-> PyInt(FirstCustomerId + n - 1)]
        /\ IdsOf(sample_products_list, "product_id")
              = [n \in 1..NumProducts |-> PyInt(FirstProductId + n - 1)]
        /\ IdsOf(sample_orders_list, "order_id")
              = [n \in 1..NumOrders |-> PyInt(FirstOrderId + n - 1)]
C5_Witness ==
    /\ pc = "done"
    /\ Len(sample_customers_list) = NumCustomers
    /\ Len(sample_products_list) = NumProducts
    /\ Len(sample_orders_list) = NumOrders

(***************************************************************************)
(* C6.  In every reachable state, from the creation of an order item to    *)
(* the end of the run, the item's price is the price of the product of     *)
(* sample_products_list that carries the item's product_id.                *)
(***************************************************************************)
C6_PriceSnapshot ==
    \A n \in 1..Len(sample_order_items_list) :
        LET it == sample_order_items_list[n]
        IN \A m \in 1..Len(sample_products_list) :
              Get(sample_products_list[m], "product_id") = Get(it, "product_id")
                  => Get(it, "price") = Get(sample_products_list[m], "price")
\* A finished run with two items of different price.
C6_Witness ==
    /\ pc = "done"
    /\ \E n, m \in 1..Len(sample_order_items_list) :
          Get(sample_order_items_list[n], "price")
              # Get(sample_order_items_list[m], "price")

(***************************************************************************)
(* C7.  A file written from a list that holds a value of a foreign type:   *)
(* the run is aborted by a TypeError, no later file has been opened,       *)
(* nothing has been printed, and what the file holds is not a JSON         *)
(* document.  A file written from a list without such a value (datetimes   *)
(* included) holds the list with every datetime as its ISO-8601 string,    *)
(* and a TypeError occurs only with a foreign value.                       *)
(***************************************************************************)
C7_ForeignTypeAborts ==
    /\ \A f \in FileNames :
          (files[f].opens > 0 /\ HasForeign(PyList(ListOf(f)))) =>
              /\ pc = "aborted"
              /\ exc = "TypeError"
              /\ stdout = <<>>
              /\ \A g \in FileNames : WritePos(g) > WritePos(f) => files[g].opens = 0
              /\ ~load(files[f].data).ok
    /\ \A f \in FileNames :
          (files[f].opens > 0 /\ ~HasForeign(PyList(ListOf(f)))) =>
              /\ load(files[f].data).ok
              /\ load(files[f].data).value = IsoView(PyList(ListOf(f)))
    /\ exc = "TypeError" =>
          \E f \in FileNames : files[f].opens > 0 /\ HasForeign(PyList(ListOf(f)))
\* The orders, with datetimes, were written; the products then raised.
C7_Witness ==
    /\ exc = "TypeError"
    /\ files["products"].opens = 1
    /\ HasDatetime(PyList(sample_orders_list))
    /\ load(files["orders"].data).ok
    /\ files["order_items"].opens = 0

(***************************************************************************)
(* C8.  Round trip: each written file loads to a list of the length of the *)
(* in-memory list, whose n-th object has the keys of the n-th record and   *)
(* equal values, datetimes as their ISO-8601 strings; a "Pending" order    *)
(* loads without a delivery_date key.                                      *)
(***************************************************************************)
C8_RoundTrip ==
    \A f \in FileNames :
        files[f].opens > 0 =>
            LET r == load(files[f].data)
                xs == ListOf(f)
            IN /\ r.ok
               /\ r.value.t = "list"
               /\ Len(r.value.elems) = Len(xs)
               /\ \A n \in 1..Len(xs) :
                     /\ Keys(r.value.elems[n]) = Keys(xs[n])
                     /\ r.value.elems[n] = IsoView(xs[n])
                     /\ (f = "orders" /\ Get(xs[n], "status") = PyStr(Pending))
                           => ~HasKey(r.value.elems[n], "delivery_date")
\* All four files written, the orders holding a delivered and a pending one.
C8_Witness ==
    /\ pc = "done"
    /\ \E n \in 1..Len(sample_orders_list) :
          Get(sample_orders_list[n], "status") = PyStr(Pending)
    /\ \E n \in 1..Len(sample_orders_list) :
          HasKey(sample_orders_list[n], "delivery_date")

(***************************************************************************)
(* C9.  Every step leaves each list a prefix of itself after the step, at  *)
(* most one record longer, and changes a list only in the stage that       *)
(* produces it: the customers only in the customer stage, the products     *)
(* only in the product stage, the orders only in the order stage, the      *)
(* order items only in the order-item stage; the writes and the summary    *)
(* change no list.                                                         *)
(***************************************************************************)
FrameStep ==
    /\ pc # "customers" => sample_customers_list' = sample_customers_list
    /\ pc # "products" => sample_products_list' = sample_products_list
    /\ pc # "orders" => sample_orders_list' = sample_orders_list
    /\ pc # "order_items" => sample_order_items_list' = sample_order_items_list
    /\ IsPrefix(sample_customers_list, sample_customers_list')
    /\ IsPrefix(sample_products_list, sample_products_list')
    /\ IsPrefix(sample_orders_list, sample_orders_list')
    /\ IsPrefix(sample_order_items_list, sample_order_items_list')
    /\ Len(sample_customers_list') <= Len(sample_customers_list) + 1
    /\ Len(sample_products_list') <= Len(sample_products_list) + 1
    /\ Len(sample_orders_list') <= Len(sample_orders_list) + 1
    /\ Len(sample_order_items_list') <= Len(sample_order_items_list) + 1
C9_AppendOnlyByOwnStage == [][FrameStep]_vars
\* A finished run: every stage, every write and the summary have acted.
C9_Witness ==
    /\ pc = "done"
    /\ Len(sample_order_items_list) > NumOrders
    /\ \A f \in FileNames : files[f].opens = 1

(***************************************************************************)
(* C10.  No file is opened before the four stages are complete; the files  *)
(* are opened in the order customers, orders, products, order_items, each  *)
(* at most once; the summary is printed once, with the four counts, after  *)
(* all four files were written, and nothing follows it; and every run      *)
(* ends, with the summary unless an exception aborted it: a run that has   *)
(* not ended can take a step, and every step moves the script forward in   *)
(* a bounded measure of its work, so no run goes on for ever.              *)
(***************************************************************************)
\* The position of a statement group in the script.
Rank(at) ==
    CASE at = "customers" -> 1
      [] at = "products" -> 2
      [] at = "orders" -> 3
      [] at = "order_item_id" -> 4
      [] at = "order_items" -> 5
      [] at = "write_customers" -> 6
      [] at = "write_orders" -> 7
      [] at = "write_products" -> 8
      [] at = "write_order_items" -> 9
      [] at = "summary" -> 10
      [] OTHER -> 11
\* The loop iterations made so far.
Work ==
    Len(sample_customers_list) + Len(sample_products_list)
    + Len(sample_orders_list) + order_pos + Len(sample_order_items_list)
WorkBound == NumCustomers + NumProducts + NumOrders * (2 + MaxItems)
Ended == pc \in {"done", "aborted"}
PipelineOrder ==
    /\ (\E f \in FileNames : files[f].opens > 0) =>
          /\ GenerationDone
          /\ Len(sample_customers_list) = NumCustomers
          /\ Len(sample_products_list) = NumProducts
          /\ Len(sample_orders_list) = NumOrders
          /\ Len(sample_order_items_list) = SumSeq(item_counts)
    /\ \A f \in FileNames : files[f].opens <= 1
    /\ \A f, g \in FileNames :
          (WritePos(f) < WritePos(g) /\ files[g].opens > 0) => files[f].opens = 1
    /\ stdout # <<>> =>
          /\ pc = "done"
          /\ stdout = << SummaryOf(sample_customers_list, sample_products_list,
                                   sample_orders_list, sample_order_items_list) >>
    /\ pc = "done" =>
          /\ Len(stdout) = 1
          /\ \A f \in FileNames : files[f].opens = 1 /\ load(files[f].data).ok
    /\ pc = "aborted" <=> exc # "none"
    /\ Work <= WorkBound
    /\ Ended \/ ENABLED Next
    /\ Ended => ~ENABLED Next
ForwardStep ==
    /\ Rank(pc') >= Rank(pc)
    /\ Rank(pc') = Rank(pc) => Work' > Work
C10_LinearPipeline == []PipelineOrder /\ [][ForwardStep]_vars
\* The summary has been printed after four writes.
C10_Witness ==
    /\ pc = "done"
    /\ Len(stdout) = 1
    /\ \A f \in FileNames : files[f].opens = 1
    /\ Len(sample_order_items_list) = NumOrders * MaxItems
====
